---- MODULE Spec2Model ----
(***************************************************************************)
(* Tiered data access and caching layer of ai-trader.                      *)
(*                                                                         *)
(*   SmartDataManager   (src/smart_data_manager.py): Tiingo first, Yahoo   *)
(*                      fallback, in-memory cache, hourly request counter. *)
(*   RealOptionsPricer  (src/real_options_pricing.py): Polygon first,      *)
(*                      Yahoo fallback, 5-minute cache.                    *)
(*   PolygonDataProvider.get_option_price (src/polygon_data_provider.py)   *)
(*   TiingoDataProvider (src/tiingo_data_provider.py)                      *)
(*                                                                         *)
(* The two classes share no state.  A behaviour drives one object, named   *)
(* by the variable component; the other object stays as constructed.       *)
(* The request counter of PolygonDataProvider's rate limiter is followed   *)
(* where the provider itself is driven (SpecPolygon).                      *)
(*                                                                         *)
(* Time.  A cache entry stores time.time() at insertion and every lookup   *)
(* reads time.time() again; only the difference is ever used.  An entry is *)
(* therefore kept with its age (minutes in SmartDataManager, as            *)
(* age_minutes; seconds in RealOptionsPricer), which Tick advances.  The   *)
(* only reads of an age compare it with the TTL of the entry's data kind,  *)
(* so the age of an entry saturates at a bound not below that TTL.         *)
(***************************************************************************)
EXTENDS Integers, Sequences, FiniteSets, TLC

VARIABLES
    component,             \* "manager" | "pricer": the object this run drives
    cache,                 \* SmartDataManager.cache: key -> entry
    tiingo_requests_used,  \* SmartDataManager.tiingo_requests_used
    fallback_active,       \* SmartDataManager.fallback_active
    opt_cache,             \* RealOptionsPricer.cache: key -> entry
    polygon_available,     \* RealOptionsPricer.polygon_available
    exhausted_minutes,     \* minutes since Tiingo became inadmissible (-1: it is not)
    op,                    \* the last public operation executed
    calls,                 \* the requests that operation made, in order
    threads,               \* worker -> the get_stock_data call it is running
    requests_made,         \* PolygonDataProvider.requests_made
    last_reset_age         \* seconds since PolygonDataProvider.last_reset

vars == <<component, cache, tiingo_requests_used, fallback_active,
          opt_cache, polygon_available, exhausted_minutes, op, calls,
          threads, requests_made, last_reset_age>>

managerVars == <<cache, tiingo_requests_used, fallback_active, exhausted_minutes>>
pricerVars  == <<opt_cache, polygon_available>>
polygonVars == <<requests_made, last_reset_age>>

-----------------------------------------------------------------------------
(* Program constants *)

tiingo_hourly_limit == 50
tiingo_daily_limit == 1000
StockMaxAgeMinutes == 60
FundamentalsMaxAgeMinutes == 240
cache_duration == 300

(* Bounds of the model *)

MaxStockAge == 61      \* minutes; ages of stock entries saturate here
MaxFundAge == 241     \* minutes; ages of fundamentals entries saturate here
MaxOptAge == 301      \* seconds; ages of pricer entries saturate here
MaxExhausted == 60     \* minutes; the time Tiingo has been refused saturates here
MaxDaySymbols == 1025  \* symbols of the watchlist swept in one day
MaxWorkers == 2        \* worker threads sharing one SmartDataManager
MaxParSymbols == 52    \* symbols handed to the worker pool
MaxBatch == 2          \* longest symbols list given to batch_analyze_symbols
MaxOutage == 60        \* symbols requested while Tiingo is out of service
MaxRequestsMade == 60  \* PolygonDataProvider is not called with requests_made beyond this
MaxResetAge == 61      \* seconds; the time since last_reset saturates here

Symbols == {"SPY"}
TickMinutes == {60}
TickSeconds == {100}

-----------------------------------------------------------------------------
(* Values *)

\* Python's None, as a return value
None == [none |-> TRUE]
\* An exception raised instead of a value
Raised == [raised |-> TRUE]

\* try: v  except Exception: (print and) return None / fall through
ExceptPropagates(v) == v

ExceptNone(v) == IF v = Raised THEN None ELSE v

Contains(seq, x) == \E i \in 1..Len(seq) : seq[i] = x

\* In the log: the answer of a service that was not contacted
NotAsked == [outcome |-> "not_asked"]

Min(a, b) == IF a < b THEN a ELSE b
Max(a, b) == IF a > b THEN a ELSE b

\* What the upstream services can answer
TiingoPriceAnswers == {"rows", "empty", "error"}
TiingoFundAnswers  == {"ok", "error"}
YahooHistAnswers   == {"rows", "empty", "raise"}

-----------------------------------------------------------------------------
(* TiingoDataProvider *)

\* get_stock_data: a dict without a 'source' key, or None
TiingoGetStockData(symbol, answer) ==
    IF answer = "rows"
    THEN [symbol |-> symbol, kind |-> "stock", source |-> "absent"]
    ELSE None

\* get_fundamentals: a dict, or None when any client call raised
TiingoGetFundamentals(symbol, answer) ==
    IF answer = "ok"
    THEN [symbol |-> symbol, kind |-> "fundamentals", source |-> "absent"]
    ELSE None

-----------------------------------------------------------------------------
(* SmartDataManager *)

_get_cache_key(symbol, data_type) == <<symbol, data_type>>

_is_cache_valid_ignoring_age(c, cache_key, max_age_minutes) ==
    cache_key \in DOMAIN c

_is_cache_valid_at_max_age(c, cache_key, max_age_minutes) ==
    IF cache_key \notin DOMAIN c
    THEN FALSE
    ELSE c[cache_key].age <= max_age_minutes

_is_cache_valid_default_max_age(c, cache_key, max_age_minutes) ==
    IF cache_key \notin DOMAIN c
    THEN FALSE
    ELSE c[cache_key].age < StockMaxAgeMinutes

_is_cache_valid(c, cache_key, max_age_minutes) ==
    IF cache_key \notin DOMAIN c
    THEN FALSE
    ELSE c[cache_key].age < max_age_minutes

\* _check_tiingo_limits: the returned bool and fallback_active afterwards
_check_tiingo_limits_past_limit(used, fallback) ==
    IF used > tiingo_hourly_limit
    THEN [ok |-> FALSE, fallback |-> TRUE]
    ELSE [ok |-> TRUE, fallback |-> fallback]

_check_tiingo_limits(used, fallback) ==
    IF used >= tiingo_hourly_limit
    THEN [ok |-> FALSE, fallback |-> TRUE]
    ELSE [ok |-> TRUE, fallback |-> fallback]

CachePut(c, cache_key, data, source) ==
    [k \in DOMAIN c \cup {cache_key} |->
        IF k = cache_key
        THEN [data |-> data, age |-> 0, source |-> source]
        ELSE c[k]]

\* A request at entry: its arguments, the counter and the flag as it finds
\* them, and the age of the entry under its key (-1: no entry).
Request(name, cache_key, force_yahoo, used, fallback, c) ==
    [op |-> name, key |-> cache_key, force_yahoo |-> force_yahoo,
     used |-> used, fallback |-> fallback,
     age |-> IF cache_key \in DOMAIN c THEN c[cache_key].age ELSE -1]

\* The request as the log keeps it once it has returned
Logged(q, hit, contacted, ret) ==
    [op |-> q.op, key |-> q.key, force_yahoo |-> q.force_yahoo,
     used |-> q.used, fallback |-> q.fallback, age |-> q.age,
     hit |-> hit, contacted |-> contacted, ret |-> ret]

\* The manager's state after a request, the value returned and the log entry
Outcome(c, used, fallback, ret, call) ==
    [cache |-> c, used |-> used, fallback |-> fallback, ret |-> ret,
     call |-> call]

\* return self.cache[cache_key]['data']
CachedResultTouching(q, c) ==
    Outcome([c EXCEPT ![q.key].age = 0], q.used, q.fallback, c[q.key].data,
            Logged(q, TRUE, <<>>, c[q.key].data))

CachedResult(q, c) ==
    Outcome(c, q.used, q.fallback, c[q.key].data,
            Logged(q, TRUE, <<>>, c[q.key].data))

\* use_tiingo = (not force_yahoo and self._check_tiingo_limits()
\*               and not self.fallback_active)
\* with fallback_active as the short-circuit evaluation leaves it
UseTiingoWithMargin(force_yahoo, used, fallback) ==
    [use |-> ~force_yahoo /\ used < tiingo_hourly_limit - 2 /\ ~fallback,
     fallback |-> fallback]

UseTiingoUnchecked(force_yahoo, used, fallback) ==
    [use |-> ~force_yahoo /\ ~fallback, fallback |-> fallback]

UseTiingoIgnoringFlag(force_yahoo, used, fallback) ==
    LET chk == _check_tiingo_limits(used, fallback)
        fb == IF force_yahoo THEN fallback ELSE chk.fallback
    IN [use |-> ~force_yahoo /\ chk.ok, fallback |-> fb]

UseTiingo(force_yahoo, used, fallback) ==
    LET chk == _check_tiingo_limits(used, fallback)
        fb == IF force_yahoo THEN fallback ELSE chk.fallback
    IN [use |-> ~force_yahoo /\ chk.ok /\ ~fb, fallback |-> fb]

\* if data: count the request, cache the result, return it
TiingoFetched(q, c, fallback, data) ==
    Outcome(CachePut(c, q.key, data, "tiingo"), q.used + 1, fallback, data,
            Logged(q, FALSE, <<"tiingo">>, data))

\* The Yahoo branch of get_stock_data: the value built from ticker.history,
\* Raised when yfinance raises
YahooStockData(symbol, answer) ==
    IF answer = "rows"
    THEN [symbol |-> symbol, kind |-> "stock", source |-> "yahoo"]
    ELSE IF answer = "raise" THEN Raised
    ELSE None

\* The Yahoo branch of get_stock_data; tried lists the providers contacted
\* before it.
YahooFallbackTrippingBreaker(q, c, fallback, tried, ydata) ==
    IF ydata # None
    THEN Outcome(CachePut(c, q.key, ydata, "yahoo"), q.used,
                 fallback \/ tried # <<>>, ydata,
                 Logged(q, FALSE, tried \o <<"yahoo">>, ydata))
    ELSE Outcome(c, q.used, fallback \/ tried # <<>>, None,
                 Logged(q, FALSE, tried \o <<"yahoo">>, None))

YahooFallbackRetrying(q, c, fallback, tried, ydata) ==
    IF ydata # None
    THEN Outcome(CachePut(c, q.key, ydata, "yahoo"), q.used, fallback, ydata,
                 Logged(q, FALSE, tried \o <<"yahoo">>, ydata))
    ELSE Outcome(c, q.used, fallback, None,
                 Logged(q, FALSE, tried \o <<"yahoo">> \o tried, None))

YahooFallbackCountingAttempt(q, c, fallback, tried, ydata) ==
    IF ydata # None
    THEN Outcome(CachePut(c, q.key, ydata, "yahoo"), q.used + Len(tried),
                 fallback, ydata,
                 Logged(q, FALSE, tried \o <<"yahoo">>, ydata))
    ELSE Outcome(c, q.used + Len(tried), fallback, None,
                 Logged(q, FALSE, tried \o <<"yahoo">>, None))

YahooFallbackCachingFailure(q, c, fallback, tried, ydata) ==
    Outcome(CachePut(c, q.key, ydata, "yahoo"), q.used, fallback, ydata,
            Logged(q, FALSE, tried \o <<"yahoo">>, ydata))

YahooFallback(q, c, fallback, tried, ydata) ==
    IF ydata # None
    THEN Outcome(CachePut(c, q.key, ydata, "yahoo"), q.used, fallback, ydata,
                 Logged(q, FALSE, tried \o <<"yahoo">>, ydata))
    ELSE Outcome(c, q.used, fallback, None,
                 Logged(q, FALSE, tried \o <<"yahoo">>, None))

\* get_stock_data on manager state (c, used, fallback)
get_stock_data(c, used, fallback, symbol, force_yahoo, t, y) ==
    LET cache_key == _get_cache_key(symbol, "stock")
        q == Request("get_stock_data", cache_key, force_yahoo, used, fallback, c)
    IN
    IF _is_cache_valid(c, cache_key, StockMaxAgeMinutes)
    THEN CachedResult(q, c)
    ELSE
      LET d == UseTiingo(force_yahoo, used, fallback)
          tdata == TiingoGetStockData(symbol, t)
      IN
      IF d.use /\ tdata # None
      THEN TiingoFetched(q, c, d.fallback, tdata)
      ELSE YahooFallback(q, c, d.fallback,
                         IF d.use THEN <<"tiingo">> ELSE <<>>,
                         ExceptNone(YahooStockData(symbol, y)))

\* get_fundamentals on manager state (c, used, fallback)
get_fundamentals(c, used, fallback, symbol, t) ==
    LET cache_key == _get_cache_key(symbol, "fundamentals")
        q == Request("get_fundamentals", cache_key, FALSE, used, fallback, c)
    IN
    IF _is_cache_valid(c, cache_key, FundamentalsMaxAgeMinutes)
    THEN CachedResult(q, c)
    ELSE
      LET chk == _check_tiingo_limits(used, fallback)
          tdata == TiingoGetFundamentals(symbol, t)
      IN
      \* if not self._check_tiingo_limits() or self.fallback_active: return None
      IF ~chk.ok \/ chk.fallback
      THEN Outcome(c, used, chk.fallback, None, Logged(q, FALSE, <<>>, None))
      ELSE IF tdata # None
      THEN TiingoFetched(q, c, chk.fallback, tdata)
      ELSE Outcome(c, used, chk.fallback, None,
                   Logged(q, FALSE, <<"tiingo">>, None))

\* What the services answer while one batch runs
BatchAnswers ==
    [t : {"rows", "error"}, y : {"rows", "empty"}, ft : TiingoFundAnswers]

\* The loop of batch_analyze_symbols from iteration i on; log collects the
\* requests made so far.
RECURSIVE BatchLoop(_, _, _, _, _, _, _, _)
BatchLoop(c, used, fallback, symbols, include_fundamentals, answers, i, log) ==
    IF i > Len(symbols)
    THEN [cache |-> c, used |-> used, fallback |-> fallback, calls |-> log]
    ELSE
      LET s == get_stock_data(c, used, fallback, symbols[i], FALSE,
                              answers.t, answers.y)
      IN
      IF s.ret = None
      THEN \* continue
           BatchLoop(s.cache, s.used, s.fallback, symbols, include_fundamentals,
                     answers, i + 1, Append(log, s.call))
      ELSE
        LET ask == include_fundamentals /\ ~s.fallback
            f == get_fundamentals(s.cache, s.used, s.fallback, symbols[i],
                                  answers.ft)
            c2 == IF ask THEN f.cache ELSE s.cache
            u2 == IF ask THEN f.used ELSE s.used
            f2 == IF ask THEN f.fallback ELSE s.fallback
            log2 == IF ask THEN <<s.call, f.call>> ELSE <<s.call>>
            \* if self.tiingo_requests_used >= self.tiingo_hourly_limit - 2
            f3 == IF u2 >= tiingo_hourly_limit - 2 THEN TRUE ELSE f2
        IN BatchLoop(c2, u2, f3, symbols, include_fundamentals, answers,
                     i + 1, log \o log2)

get_usage_stats ==
    [tiingo_requests_used |-> tiingo_requests_used,
     tiingo_hourly_limit |-> tiingo_hourly_limit,
     tiingo_daily_limit |-> tiingo_daily_limit,
     fallback_active |-> fallback_active,
     cache_entries |-> Cardinality(DOMAIN cache),
     requests_remaining |-> tiingo_hourly_limit - tiingo_requests_used]

-----------------------------------------------------------------------------
(* Actions on SmartDataManager *)

\* _check_tiingo_limits would refuse, or the flag is set
Inadmissible(used, fallback) == used >= tiingo_hourly_limit \/ fallback

\* exhausted_minutes after an operation that left the counter at used and the
\* flag at fallback while d minutes passed
ExhaustedAfter(used, fallback, d) ==
    IF ~Inadmissible(used, fallback) THEN -1
    ELSE IF exhausted_minutes = -1 THEN 0
    ELSE Min(exhausted_minutes + d, MaxExhausted)

GetStockData(symbol, force_yahoo, t, y) ==
    /\ component = "manager"
    /\ \E r \in {get_stock_data(cache, tiingo_requests_used, fallback_active,
                               symbol, force_yahoo, t, y)} :
          /\ cache' = r.cache
          /\ tiingo_requests_used' = r.used
          /\ fallback_active' = r.fallback
          /\ exhausted_minutes' = ExhaustedAfter(r.used, r.fallback, 0)
          /\ calls' = <<r.call>>
    /\ op' = "get_stock_data"
    /\ UNCHANGED <<component, threads, polygonVars, pricerVars>>

GetFundamentals(symbol, t) ==
    /\ component = "manager"
    /\ \E r \in {get_fundamentals(cache, tiingo_requests_used, fallback_active,
                                 symbol, t)} :
          /\ cache' = r.cache
          /\ tiingo_requests_used' = r.used
          /\ fallback_active' = r.fallback
          /\ exhausted_minutes' = ExhaustedAfter(r.used, r.fallback, 0)
          /\ calls' = <<r.call>>
    /\ op' = "get_fundamentals"
    /\ UNCHANGED <<component, threads, polygonVars, pricerVars>>

BatchAnalyzeSymbols(symbols, include_fundamentals, answers) ==
    /\ component = "manager"
    /\ \E r \in {BatchLoop(cache, tiingo_requests_used, fallback_active,
                          symbols, include_fundamentals, answers, 1, <<>>)} :
          /\ cache' = r.cache
          /\ tiingo_requests_used' = r.used
          /\ fallback_active' = r.fallback
          /\ exhausted_minutes' = ExhaustedAfter(r.used, r.fallback, 0)
          /\ calls' = r.calls
    /\ op' = "batch_analyze_symbols"
    /\ UNCHANGED <<component, threads, polygonVars, pricerVars>>

ResetHourlyUsageKeepingFlag ==
    /\ component = "manager"
    /\ tiingo_requests_used' = 0
    /\ exhausted_minutes' = ExhaustedAfter(0, fallback_active, 0)
    /\ op' = "reset_hourly_usage"
    /\ calls' = <<>>
    /\ UNCHANGED <<component, threads, polygonVars, cache, fallback_active, pricerVars>>

ResetHourlyUsageClearingCache ==
    /\ component = "manager"
    /\ tiingo_requests_used' = 0
    /\ fallback_active' = FALSE
    /\ exhausted_minutes' = -1
    /\ cache' = [k \in {} |-> None]
    /\ op' = "reset_hourly_usage"
    /\ calls' = <<>>
    /\ UNCHANGED <<component, threads, polygonVars, pricerVars>>

ResetHourlyUsage ==
    /\ component = "manager"
    /\ tiingo_requests_used' = 0
    /\ fallback_active' = FALSE
    /\ exhausted_minutes' = -1
    /\ op' = "reset_hourly_usage"
    /\ calls' = <<>>
    /\ UNCHANGED <<component, threads, polygonVars, cache, pricerVars>>

AgeCap(cache_key) ==
    IF cache_key[2] = "stock" THEN MaxStockAge ELSE MaxFundAge

\* time.time() moves on by d minutes
ManagerTick(d) ==
    /\ component = "manager"
    /\ cache' = [k \in DOMAIN cache |->
                    [cache[k] EXCEPT !.age = Min(cache[k].age + d, AgeCap(k))]]
    /\ op' = "tick"
    /\ calls' = <<>>
    /\ exhausted_minutes' =
          ExhaustedAfter(tiingo_requests_used, fallback_active, d)
    /\ UNCHANGED <<component, threads, polygonVars, tiingo_requests_used, fallback_active, pricerVars>>

-----------------------------------------------------------------------------
(* PolygonDataProvider.get_option_price *)

OptionTypes == {"CALL", "PUT"}
\* Money is counted in cents: strike 100.00, underlying 105.00
Strikes == {10000}

\* What Polygon answers to the three lookups of get_option_price: the
\* contracts lookup, the aggregates lookup (last is the close of the latest
\* bar) and the underlying's get_stock_data (0 stands for its None).
PolygonAnswers ==
    {[outcome |-> o, last |-> 0, underlying |-> 0] :
        o \in {"contracts_http_error", "no_contract", "aggs_http_error", "raise"}}
    \cup
    {[outcome |-> "no_bars", last |-> 0, underlying |-> u] : u \in {0, 10500}}
    \cup
    {[outcome |-> "bars", last |-> 150, underlying |-> u] : u \in {0, 10500}}

IntrinsicValueSigned(option_type, underlying_price, strike) ==
    IF option_type = "CALL"
    THEN underlying_price - strike
    ELSE strike - underlying_price

IntrinsicValue(option_type, underlying_price, strike) ==
    IF option_type = "CALL"
    THEN Max(0, underlying_price - strike)
    ELSE Max(0, strike - underlying_price)

\* time_value = max(0, mid_price - intrinsic_value)
TimeValueSigned(mid_price, intrinsic_value) == mid_price - intrinsic_value

TimeValue(mid_price, intrinsic_value) == Max(0, mid_price - intrinsic_value)

\* PolygonOptionData, or None
PolygonGetOptionPriceAbsentAsZero(strike, option_type, pa) ==
    IF pa.outcome \in {"contracts_http_error", "aggs_http_error", "raise"}
    THEN None
    ELSE [strike |-> strike, option_type |-> option_type,
          last_price |-> 0, bid |-> 0, ask |-> 0, mid_price |-> 0,
          intrinsic_value |-> 0, time_value |-> 0, underlying_price |-> 0]

PolygonGetOptionPrice(strike, option_type, pa) ==
    IF pa.outcome \notin {"no_bars", "bars"}
    THEN None
    ELSE
      LET \* bid, ask, last_price, volume = 0, 0, 0, 0
          last_price == IF pa.outcome = "bars" THEN pa.last ELSE 0
          mid_price == last_price
          underlying_price == pa.underlying
          intrinsic_value == IntrinsicValue(option_type, underlying_price, strike)
      IN [strike |-> strike, option_type |-> option_type,
          last_price |-> last_price, bid |-> 0, ask |-> 0,
          mid_price |-> mid_price,
          intrinsic_value |-> intrinsic_value,
          time_value |-> TimeValue(mid_price, intrinsic_value),
          underlying_price |-> underlying_price]

-----------------------------------------------------------------------------
(* RealOptionsPricer *)

\* What Yahoo answers to get_real_option_price: the 1-day history, the
\* option chain and the row of the strike.
YahooOptionAnswers ==
    {[outcome |-> o, current_price |-> 0, bid |-> 0, ask |-> 0, lastPrice |-> 0] :
        o \in {"no_stock", "raise", "no_chain", "no_strike"}}
    \cup
    {[outcome |-> "row", current_price |-> 10500, bid |-> q[1], ask |-> q[2],
      lastPrice |-> q[3]] :
        q \in {<<165, 195, 150>>, <<0, 0, 150>>, <<640, 660, 650>>}}

\* a / b as the pair <<a, b>>
Ratio(a, b) == <<a, b>>

OptionData(strike, option_type, last_price, bid, ask, mid_price, intrinsic_value, time_value, moneyness) ==
    [strike |-> strike, option_type |-> option_type,
     last_price |-> last_price, bid |-> bid, ask |-> ask,
     mid_price |-> mid_price, intrinsic_value |-> intrinsic_value,
     time_value |-> time_value, moneyness |-> moneyness]

\* mid_price = (bid + ask) / 2 if (bid > 0 and ask > 0)
\*             else float(option['lastPrice'])
MidPriceAveraging(bid, ask, lastPrice) == (bid + ask) \div 2

MidPrice(bid, ask, lastPrice) ==
    IF bid > 0 /\ ask > 0 THEN (bid + ask) \div 2 ELSE lastPrice

\* The conversion of a PolygonOptionData; Raised for the ZeroDivisionError
\* of strike / underlying_price
FromPolygonMoneynessOfCall(pd) ==
    OptionData(pd.strike, pd.option_type, pd.last_price, pd.bid, pd.ask,
               pd.mid_price, pd.intrinsic_value, pd.time_value,
               Ratio(pd.underlying_price, pd.strike))

FromPolygon(pd) ==
    IF pd.option_type # "CALL" /\ pd.underlying_price = 0
    THEN Raised
    ELSE OptionData(pd.strike, pd.option_type, pd.last_price, pd.bid, pd.ask,
                    pd.mid_price, pd.intrinsic_value, pd.time_value,
                    IF pd.option_type = "CALL"
                    THEN Ratio(pd.underlying_price, pd.strike)
                    ELSE Ratio(pd.strike, pd.underlying_price))

\* The Yahoo branch of get_real_option_price: OptionData, None, or Raised
\* when yfinance raises
FromYahoo(strike, option_type, ya) ==
    IF ya.outcome = "raise"
    THEN Raised
    ELSE IF ya.outcome # "row"
    THEN None
    ELSE IF option_type # "CALL" /\ ya.current_price = 0
    THEN Raised  \* ZeroDivisionError of strike / current_price
    ELSE
      LET current_price == ya.current_price
          bid == ya.bid
          ask == ya.ask
          mid_price == MidPrice(bid, ask, ya.lastPrice)
          intrinsic_value == IntrinsicValue(option_type, current_price, strike)
          moneyness == IF option_type = "CALL"
                       THEN Ratio(current_price, strike)
                       ELSE Ratio(strike, current_price)
      IN OptionData(strike, option_type, ya.lastPrice, bid, ask, mid_price,
                    intrinsic_value, TimeValue(mid_price, intrinsic_value),
                    moneyness)

OptCachePut(c, cache_key, option_data) ==
    [k \in DOMAIN c \cup {cache_key} |->
        IF k = cache_key THEN [data |-> option_data, age |-> 0] ELSE c[k]]

\* A request at entry: its key, the age of the entry under it (-1: no
\* entry) and what the two services would answer if asked.
OptRequest(cache_key, c, pa, ya) ==
    [op |-> "get_real_option_price", key |-> cache_key,
     age |-> IF cache_key \in DOMAIN c THEN c[cache_key].age ELSE -1,
     polygon |-> pa, yahoo |-> ya]

\* The request as the log keeps it once it has returned, with the answers
\* of the services it contacted
OptLogged(q, hit, contacted, ret) ==
    [op |-> q.op, key |-> q.key, age |-> q.age,
     hit |-> hit, contacted |-> contacted, ret |-> ret,
     polygon |-> IF Contains(contacted, "polygon") THEN q.polygon ELSE NotAsked,
     yahoo |-> IF Contains(contacted, "yahoo") THEN q.yahoo ELSE NotAsked]

OptOutcome(c, ret, call) == [cache |-> c, ret |-> ret, call |-> call]

\* if cache_key in self.cache: ... if time.time() - cached_time < 300
OptCacheValidIgnoringAge(c, cache_key) == cache_key \in DOMAIN c

OptCacheValid(c, cache_key) ==
    cache_key \in DOMAIN c /\ c[cache_key].age < cache_duration

\* return cached_data
OptCachedResult(q, c) ==
    OptOutcome(c, c[q.key].data, OptLogged(q, TRUE, <<>>, c[q.key].data))

\* Polygon answered: cache the converted quote and return it
PolygonPriced(q, c, option_data) ==
    OptOutcome(OptCachePut(c, q.key, option_data), option_data,
               OptLogged(q, FALSE, <<"polygon">>, option_data))

\* The Yahoo branch of get_real_option_price; tried lists the providers
\* contacted before it.
OptYahooFallback(q, c, tried, ydata) ==
    IF ydata # None
    THEN OptOutcome(OptCachePut(c, q.key, ydata), ydata,
                    OptLogged(q, FALSE, tried \o <<"yahoo">>, ydata))
    ELSE OptOutcome(c, None, OptLogged(q, FALSE, tried \o <<"yahoo">>, None))

\* get_real_option_price on pricer state (c, available)
get_real_option_price(c, available, strike, option_type, pa, ya) ==
    LET cache_key == <<strike, option_type>>
        q == OptRequest(cache_key, c, pa, ya)
    IN
    IF OptCacheValid(c, cache_key)
    THEN OptCachedResult(q, c)
    ELSE
      LET polygon_data == PolygonGetOptionPrice(strike, option_type, pa)
          converted == IF polygon_data = None THEN None
                       ELSE FromPolygon(polygon_data)
      IN
      IF available /\ ExceptNone(converted) # None
      THEN PolygonPriced(q, c, converted)
      ELSE OptYahooFallback(q, c,
                            IF available THEN <<"polygon">> ELSE <<>>,
                            ExceptNone(FromYahoo(strike, option_type, ya)))

-----------------------------------------------------------------------------
(* Actions on RealOptionsPricer *)

GetRealOptionPrice(strike, option_type, pa, ya) ==
    /\ component = "pricer"
    /\ \E r \in {get_real_option_price(opt_cache, polygon_available,
                                      strike, option_type, pa, ya)} :
          /\ opt_cache' = r.cache
          /\ calls' = <<r.call>>
    /\ op' = "get_real_option_price"
    /\ UNCHANGED <<component, threads, polygonVars, managerVars, polygon_available>>

\* time.time() moves on by d seconds
PricerTick(d) ==
    /\ component = "pricer"
    /\ opt_cache' = [k \in DOMAIN opt_cache |->
                       [opt_cache[k] EXCEPT
                           !.age = Min(opt_cache[k].age + d, MaxOptAge)]]
    /\ op' = "tick"
    /\ calls' = <<>>
    /\ UNCHANGED <<component, threads, polygonVars, managerVars, polygon_available>>

-----------------------------------------------------------------------------

EmptyCache == [k \in {} |-> None]

Init ==
    /\ component \in {"manager", "pricer"}
    /\ cache = EmptyCache
    /\ tiingo_requests_used = 0
    /\ fallback_active = FALSE
    /\ exhausted_minutes = -1
    /\ opt_cache = EmptyCache
    /\ polygon_available \in IF component = "pricer" THEN BOOLEAN ELSE {TRUE}
    /\ op = "init"
    /\ calls = <<>>
    /\ threads = <<>>
    /\ requests_made = 0
    /\ last_reset_age = 0

SymbolLists == UNION {[1..n -> Symbols] : n \in 0..MaxBatch}

Next ==
    \/ \E s \in Symbols, fy \in BOOLEAN, t \in TiingoPriceAnswers,
          y \in YahooHistAnswers : GetStockData(s, fy, t, y)
    \/ \E s \in Symbols, t \in TiingoFundAnswers : GetFundamentals(s, t)
    \/ \E l \in SymbolLists, inc \in BOOLEAN :
          \E a \in BatchAnswers : BatchAnalyzeSymbols(l, inc, a)
    \/ ResetHourlyUsage
    \/ \E d \in TickMinutes : ManagerTick(d)
    \/ \E k \in Strikes, ty \in OptionTypes, pa \in PolygonAnswers,
          ya \in YahooOptionAnswers : GetRealOptionPrice(k, ty, pa, ya)
    \/ \E d \in TickSeconds : PricerTick(d)

Spec == Init /\ [][Next]_vars

-----------------------------------------------------------------------------
(* One day of a SmartDataManager that sweeps a watchlist: every request asks
   for the stock data of the next symbol not yet cached, both providers
   answer with rows, and reset_hourly_usage is called once the manager has
   switched to fallback.  No time passes, so the whole run lies inside one
   24h window and no cache entry is ever overwritten. *)

\* the next symbol of the watchlist
DaySymbol == ToString(Cardinality(DOMAIN cache) + 1)

DayInit == Init /\ component = "manager"

DayGetStockData ==
    /\ ~fallback_active
    /\ Cardinality(DOMAIN cache) < MaxDaySymbols
    /\ GetStockData(DaySymbol, FALSE, "rows", "rows")

DayResetHourlyUsage ==
    /\ fallback_active
    /\ ResetHourlyUsage

DayNext ==
    \/ DayGetStockData
    \/ DayResetHourlyUsage

SpecDay == DayInit /\ [][DayNext]_vars

-----------------------------------------------------------------------------
(* A SmartDataManager that sweeps a watchlist while Tiingo is out of service:
   every request asks for the stock data of the next symbol not yet cached,
   Tiingo answers with no rows or with an error and Yahoo answers with rows.
   reset_hourly_usage may be called at any time.  Here calls keeps every
   request made since the last reset_hourly_usage (which empties it). *)

OutageTiingoAnswers == {"empty", "error"}

OutageGetStockData(t) ==
    /\ component = "manager"
    /\ Cardinality(DOMAIN cache) < MaxOutage
    /\ \E r \in {get_stock_data(cache, tiingo_requests_used, fallback_active,
                               DaySymbol, FALSE, t, "rows")} :
          /\ cache' = r.cache
          /\ tiingo_requests_used' = r.used
          /\ fallback_active' = r.fallback
          /\ exhausted_minutes' = ExhaustedAfter(r.used, r.fallback, 0)
          /\ calls' = Append(calls, r.call)
    /\ op' = "get_stock_data"
    /\ UNCHANGED <<component, threads, polygonVars, pricerVars>>

OutageNext ==
    \/ \E t \in OutageTiingoAnswers : OutageGetStockData(t)
    \/ ResetHourlyUsage

SpecOutage == DayInit /\ [][OutageNext]_vars

-----------------------------------------------------------------------------
(* Worker threads sharing one SmartDataManager, as the ThreadPoolExecutor of
   screen_market_parallel runs analyze_single_symbol: each worker executes
   get_stock_data(symbol) statement by statement, and the statements of
   different workers interleave (the manager holds no lock).  Both providers
   answer with rows and no time passes. *)

Workers == 1..MaxWorkers

Idle == [pc |-> "idle", symbol |-> "", seen |-> 0, data |-> None]

\* the keys that are cached or being resolved
HandedOut ==
    DOMAIN cache \cup
    {_get_cache_key(threads[w].symbol, "stock") :
        w \in {v \in Workers : threads[v].pc # "idle"}}

\* screen_market_parallel submits each symbol of get_all_symbols() once
\* (the list is de-duplicated): the next symbol of the list, if any is left.
\* Of all schedules of the pool, those are followed in which a worker starts
\* on the next symbol while every busy worker is on the symbol before it.
ParSymbols ==
    IF /\ Cardinality(HandedOut) < MaxParSymbols
       /\ \A v \in Workers :
             threads[v].pc # "idle" =>
                 threads[v].symbol = ToString(Cardinality(HandedOut))
    THEN {ToString(Cardinality(HandedOut) + 1)}
    ELSE {}

\* What Tiingo answers to the workers of screen_market_parallel
ParTiingoAnswers == {"rows"}

ParFrame == UNCHANGED <<component, opt_cache, polygon_available, op, calls, polygonVars>>

\* executor.submit(self.analyze_single_symbol, symbol, ...)
ParSubmit(w, symbol) ==
    /\ threads[w].pc = "idle"
    /\ threads' = [threads EXCEPT ![w] = [Idle EXCEPT !.pc = "cache_check",
                                                      !.symbol = symbol]]
    /\ UNCHANGED managerVars
    /\ ParFrame

\* if self._is_cache_valid(cache_key): return self.cache[cache_key]['data']
ParCacheCheck(w) ==
    /\ threads[w].pc = "cache_check"
    /\ threads' = [threads EXCEPT ![w] =
          IF _is_cache_valid(cache, _get_cache_key(threads[w].symbol, "stock"),
                             StockMaxAgeMinutes)
          THEN Idle
          ELSE [@ EXCEPT !.pc = "limit_check"]]
    /\ UNCHANGED managerVars
    /\ ParFrame

\* use_tiingo = (not force_yahoo and self._check_tiingo_limits()
\*               and not self.fallback_active)
ParLimitCheck(w) ==
    /\ threads[w].pc = "limit_check"
    /\ \E d \in {UseTiingo(FALSE, tiingo_requests_used, fallback_active)} :
          /\ fallback_active' = d.fallback
          /\ exhausted_minutes' =
                ExhaustedAfter(tiingo_requests_used, d.fallback, 0)
          /\ threads' = [threads EXCEPT ![w].pc =
                IF d.use THEN "tiingo_call" ELSE "yahoo_call"]
    /\ UNCHANGED <<cache, tiingo_requests_used>>
    /\ ParFrame

\* data = self.tiingo_provider.get_stock_data(...) returns; if data: ...
\* else: fall back to Yahoo
ParTiingoReturn(w, t) ==
    /\ threads[w].pc = "tiingo_call"
    /\ \E data \in {TiingoGetStockData(threads[w].symbol, t)} :
          threads' = [threads EXCEPT
                         ![w].pc = IF data # None THEN "count_read"
                                   ELSE "yahoo_call",
                         ![w].data = data]
    /\ UNCHANGED managerVars
    /\ ParFrame

\* self.tiingo_requests_used += 1: the load ...
ParCountRead(w) ==
    /\ threads[w].pc = "count_read"
    /\ threads' = [threads EXCEPT ![w].pc = "count_write",
                                  ![w].seen = tiingo_requests_used]
    /\ UNCHANGED managerVars
    /\ ParFrame

\* ... and the store
ParCountWrite(w) ==
    /\ threads[w].pc = "count_write"
    /\ tiingo_requests_used' = threads[w].seen + 1
    /\ exhausted_minutes' =
          ExhaustedAfter(threads[w].seen + 1, fallback_active, 0)
    /\ threads' = [threads EXCEPT ![w].pc = "cache_put"]
    /\ UNCHANGED <<cache, fallback_active>>
    /\ ParFrame

\* self.cache[cache_key] = {...'source': 'tiingo'}; return data
ParCachePut(w) ==
    /\ threads[w].pc = "cache_put"
    /\ cache' = CachePut(cache, _get_cache_key(threads[w].symbol, "stock"),
                         threads[w].data, "tiingo")
    /\ threads' = [threads EXCEPT ![w] = Idle]
    /\ UNCHANGED <<tiingo_requests_used, fallback_active, exhausted_minutes>>
    /\ ParFrame

\* hist = ticker.history(...) returns and yahoo_data is built
ParYahooReturn(w) ==
    /\ threads[w].pc = "yahoo_call"
    /\ threads' = [threads EXCEPT ![w].pc = "yahoo_put",
                                  ![w].data =
                                     YahooStockData(threads[w].symbol, "rows")]
    /\ UNCHANGED managerVars
    /\ ParFrame

\* self.cache[cache_key] = {...'source': 'yahoo'}; return yahoo_data
ParYahooPut(w) ==
    /\ threads[w].pc = "yahoo_put"
    /\ cache' = CachePut(cache, _get_cache_key(threads[w].symbol, "stock"),
                         threads[w].data, "yahoo")
    /\ threads' = [threads EXCEPT ![w] = Idle]
    /\ UNCHANGED <<tiingo_requests_used, fallback_active, exhausted_minutes>>
    /\ ParFrame

ParInit ==
    /\ component = "manager"
    /\ cache = EmptyCache
    /\ tiingo_requests_used = 0
    /\ fallback_active = FALSE
    /\ exhausted_minutes = -1
    /\ opt_cache = EmptyCache
    /\ polygon_available = TRUE
    /\ op = "init"
    /\ calls = <<>>
    /\ threads = [w \in Workers |-> Idle]
    /\ requests_made = 0
    /\ last_reset_age = 0

ParNext ==
    \E w \in Workers :
        \/ \E symbol \in ParSymbols : ParSubmit(w, symbol)
        \/ ParCacheCheck(w)
        \/ ParLimitCheck(w)
        \/ \E t \in ParTiingoAnswers : ParTiingoReturn(w, t)
        \/ ParCountRead(w)
        \/ ParCountWrite(w)
        \/ ParCachePut(w)
        \/ ParYahooReturn(w)
        \/ ParYahooPut(w)

SpecPar == ParInit /\ [][ParNext]_vars

-----------------------------------------------------------------------------
(* Callers on different threads asking one SmartDataManager for any symbol of
   a short list, the same one included; Tiingo may fail. *)

DogpileSymbols == {"SPY", "QQQ"}

DogpileNext ==
    \E w \in Workers :
        \/ \E symbol \in DogpileSymbols : ParSubmit(w, symbol)
        \/ ParCacheCheck(w)
        \/ ParLimitCheck(w)
        \/ \E t \in TiingoPriceAnswers : ParTiingoReturn(w, t)
        \/ ParCountRead(w)
        \/ ParCountWrite(w)
        \/ ParCachePut(w)
        \/ ParYahooReturn(w)
        \/ ParYahooPut(w)

SpecDogpile == ParInit /\ [][DogpileNext]_vars

-----------------------------------------------------------------------------
(* SmartDataManager.calculate_enhanced_metrics.  A DataFrame is a function
   from the names of its columns to their series; a dict is a record of the
   keys it has.  Quotients are kept as pairs (Ratio); the rounding applied to
   each value and the statistics of the close series (standard deviation,
   moving averages) are kept as terms over the series they are computed
   from. *)

CloseSeries == {<<100, 110, 121>>, <<100, 110>>, <<100>>, <<50, 40, 60>>}
VolumeSeries == {<<10, 20, 30>>, <<7, 7>>, <<0, 0>>}
CloseNames == {"Close", "close"}
VolumeNames == {"Volume", "volume"}

\* DataFrames with at most one close and at most one volume column
DataFrames ==
    UNION {[cols -> CloseSeries \cup VolumeSeries] :
              cols \in {cs \cup vs : cs \in {{}} \cup {{c} : c \in CloseNames},
                                     vs \in {{}} \cup {{v} : v \in VolumeNames}}}

WellFormed(df) ==
    /\ \A c \in DOMAIN df \cap CloseNames : df[c] \in CloseSeries
    /\ \A v \in DOMAIN df \cap VolumeNames : df[v] \in VolumeSeries

\* The stock_data arguments: None, a dict without 'price_data', Yahoo's dict
\* (with 'source') and Tiingo's (without)
StockDataInputs ==
    {None, [symbol |-> "SPY"]}
    \cup {[price_data |-> df, source |-> "yahoo"] :
             df \in {d \in DataFrames : WellFormed(d)}}
    \cup {[price_data |-> df] : df \in {d \in DataFrames : WellFormed(d)}}

RECURSIVE SeqSum(_)
SeqSum(q) == IF q = <<>> THEN 0 ELSE q[1] + SeqSum(Tail(q))

\* {} as a dict
EmptyDict == [k \in {} |-> None]

\* if 'Close' in df.columns: Yahoo format, else: Tiingo format
ColumnNamesYahooOnly(columns) == [close_col |-> "Close", volume_col |-> "Volume"]

ColumnNames(columns) ==
    IF "Close" \in columns
    THEN [close_col |-> "Close", volume_col |-> "Volume"]
    ELSE [close_col |-> "close", volume_col |-> "volume"]

\* volume_ratio: current_volume / avg_volume_30d if avg_volume_30d > 0 else 1,
\* and 1.0 when the volume column is not there
VolumeRatio(df, volume_col) ==
    IF volume_col \in DOMAIN df
    THEN LET v == df[volume_col] IN
         IF SeqSum(v) > 0
         THEN Ratio(v[Len(v)] * Len(v), SeqSum(v))
         ELSE Ratio(1, 1)
    ELSE Ratio(1, 1)

calculate_enhanced_metrics(stock_data) ==
    IF stock_data = None \/ "price_data" \notin DOMAIN stock_data
    THEN EmptyDict
    ELSE
      LET df == stock_data.price_data
          source == IF "source" \in DOMAIN stock_data
                    THEN stock_data.source ELSE "unknown"
          n == ColumnNames(DOMAIN df)
      IN
      \* KeyError of df[close_col], IndexError of .iloc[-2]
      IF n.close_col \notin DOMAIN df \/ Len(df[n.close_col]) < 2
      THEN [data_quality |-> <<"Error", source>>]
      ELSE
        LET close == df[n.close_col]
            last == close[Len(close)]
            prev == close[Len(close) - 1]
        IN [current_price |-> last,
            price_change_1d |-> Ratio((last - prev) * 100, prev),
            volatility_30d |-> <<"volatility", close>>,
            volume_ratio |-> VolumeRatio(df, n.volume_col),
            price_vs_sma20 |-> <<"vs_sma", 20, close>>,
            price_vs_sma50 |-> <<"vs_sma", 50, close>>,
            data_quality |-> <<"Enhanced", source>>]

CalculateEnhancedMetrics(stock_data) ==
    /\ component = "manager"
    /\ op' = "calculate_enhanced_metrics"
    /\ calls' = <<[op |-> "calculate_enhanced_metrics",
                   stock_data |-> stock_data,
                   ret |-> calculate_enhanced_metrics(stock_data)]>>
    /\ UNCHANGED <<component, threads, polygonVars, managerVars, pricerVars>>

MetricsInit == Init /\ component = "manager"

MetricsNext == \E stock_data \in StockDataInputs : CalculateEnhancedMetrics(stock_data)

SpecMetrics == MetricsInit /\ [][MetricsNext]_vars

-----------------------------------------------------------------------------
(* PolygonDataProvider driven directly: its four public methods, each of
   which runs _rate_limit_check once and then sends its HTTP requests,
   incrementing requests_made after each response.  Every request sent is
   answered, so requests_made is the number of HTTP requests sent since
   requests_made was last reset. *)

PolygonTickSeconds == {20}

\* _rate_limit_check: requests_made and the age of last_reset afterwards
_rate_limit_check(made, age) ==
    LET m1 == IF age > 60 THEN 0 ELSE made
        a1 == IF age > 60 THEN 0 ELSE age
        \* current_time was read before the reset above
        sleep_time == 60 - (IF age > 60 THEN 0 ELSE age)
    IN IF m1 > 50 /\ sleep_time > 0
       THEN [requests_made |-> 0, last_reset_age |-> 0]
       ELSE [requests_made |-> m1, last_reset_age |-> a1]

\* self.session.get(...); self.requests_made += 1, n times
Requested(p, n) == [p EXCEPT !.requests_made = @ + n]

ProviderFrame == UNCHANGED <<component, threads, managerVars, pricerVars, calls>>

ProviderReturn(p, name) ==
    /\ requests_made' = p.requests_made
    /\ last_reset_age' = p.last_reset_age
    /\ op' = name
    /\ ProviderFrame

\* get_stock_data: the aggregates request, and after a usable answer the
\* quote and the ticker details requests
ProviderStockRequests == {1, 3}

ProviderGetStockData(n) ==
    /\ component = "polygon"
    /\ requests_made <= MaxRequestsMade
    /\ ProviderReturn(Requested(_rate_limit_check(requests_made, last_reset_age), n),
                      "polygon.get_stock_data")

\* get_options_chain and get_market_news: one request each
ProviderGetOptionsChain ==
    /\ component = "polygon"
    /\ requests_made <= MaxRequestsMade
    /\ ProviderReturn(Requested(_rate_limit_check(requests_made, last_reset_age), 1),
                      "polygon.get_options_chain")

ProviderGetMarketNews ==
    /\ component = "polygon"
    /\ requests_made <= MaxRequestsMade
    /\ ProviderReturn(Requested(_rate_limit_check(requests_made, last_reset_age), 1),
                      "polygon.get_market_news")

\* get_option_price: the contracts request alone (n = 1: no contract), the
\* contracts and the aggregates request, and then, unless the aggregates
\* request failed (nested = 0), get_stock_data of the underlying with its own
\* _rate_limit_check
ProviderGetOptionPrice(n, nested) ==
    /\ component = "polygon"
    /\ requests_made <= MaxRequestsMade
    /\ n = 1 => nested = 0
    /\ LET p == Requested(_rate_limit_check(requests_made, last_reset_age), n)
       IN ProviderReturn(IF nested = 0 THEN p
                         ELSE Requested(_rate_limit_check(p.requests_made,
                                                          p.last_reset_age),
                                        nested),
                         "polygon.get_option_price")

\* time.time() moves on by d seconds
ProviderTick(d) ==
    /\ component = "polygon"
    /\ last_reset_age' = Min(last_reset_age + d, MaxResetAge)
    /\ op' = "tick"
    /\ UNCHANGED requests_made
    /\ ProviderFrame

ProviderInit ==
    /\ component = "polygon"
    /\ cache = EmptyCache
    /\ tiingo_requests_used = 0
    /\ fallback_active = FALSE
    /\ exhausted_minutes = -1
    /\ opt_cache = EmptyCache
    /\ polygon_available = TRUE
    /\ op = "init"
    /\ calls = <<>>
    /\ threads = <<>>
    /\ requests_made = 0
    /\ last_reset_age = 0

ProviderNext ==
    \/ \E n \in ProviderStockRequests : ProviderGetStockData(n)
    \/ ProviderGetOptionsChain
    \/ ProviderGetMarketNews
    \/ \E n \in {1, 2}, nested \in {0} \cup ProviderStockRequests :
          ProviderGetOptionPrice(n, nested)
    \/ \E d \in PolygonTickSeconds : ProviderTick(d)

SpecPolygon == ProviderInit /\ [][ProviderNext]_vars

-----------------------------------------------------------------------------
(* get_real_option_price with its waits made visible.  The caller issues
   self.session.get(...) inside PolygonDataProvider.get_option_price and
   blocks until the response arrives; the call passes no timeout, so there
   is no step by which the caller gives up.  threads[1] is the call in
   progress.  The caller's own steps and the answer of yfinance are fair;
   the arrival of Polygon's response is up to Polygon. *)

\* The call in progress, blocked in (or back from) a provider
Waiting(pc, strike, option_type, pa) ==
    <<[pc |-> pc, strike |-> strike, option_type |-> option_type, polygon |-> pa]>>

\* The answers handed to get_real_option_price for a provider it will not ask
UnaskedPolygon == CHOOSE pa \in PolygonAnswers : pa.outcome = "no_contract"
UnaskedYahoo == CHOOSE ya \in YahooOptionAnswers : ya.outcome = "no_stock"

HangReturn(r) ==
    /\ opt_cache' = r.cache
    /\ calls' = <<r.call>>
    /\ op' = "get_real_option_price"
    /\ threads' = <<>>
    /\ UNCHANGED <<component, managerVars, polygon_available, polygonVars>>

HangBlock(pc, strike, option_type, pa) ==
    /\ threads' = Waiting(pc, strike, option_type, pa)
    /\ op' = "get_real_option_price"
    /\ calls' = <<>>
    /\ UNCHANGED <<component, managerVars, pricerVars, polygonVars>>

\* The caller enters get_real_option_price: a cache hit returns at once,
\* otherwise the first provider is called
HangCall(strike, option_type) ==
    /\ component = "pricer"
    /\ threads = <<>>
    /\ IF OptCacheValid(opt_cache, <<strike, option_type>>)
       THEN HangReturn(get_real_option_price(opt_cache, polygon_available,
                           strike, option_type, UnaskedPolygon, UnaskedYahoo))
       ELSE HangBlock(IF polygon_available THEN "polygon" ELSE "yahoo",
                      strike, option_type, UnaskedPolygon)

\* Polygon's HTTP responses arrive (or the request fails)
HangPolygonResponds(pa) ==
    /\ threads # <<>>
    /\ threads[1].pc = "polygon"
    /\ HangBlock("polygon_done", threads[1].strike, threads[1].option_type, pa)

\* The caller goes on with what Polygon answered: return the converted quote,
\* or fall back to Yahoo
HangPolygonReturn ==
    /\ threads # <<>>
    /\ threads[1].pc = "polygon_done"
    /\ LET t == threads[1]
           polygon_data == PolygonGetOptionPrice(t.strike, t.option_type, t.polygon)
           converted == IF polygon_data = None THEN None
                        ELSE FromPolygon(polygon_data)
       IN IF ExceptNone(converted) # None
          THEN HangReturn(get_real_option_price(opt_cache, polygon_available,
                              t.strike, t.option_type, t.polygon, UnaskedYahoo))
          ELSE HangBlock("yahoo", t.strike, t.option_type, t.polygon)

\* yfinance answers (or raises) and the caller returns
HangYahooReturn(ya) ==
    /\ threads # <<>>
    /\ threads[1].pc = "yahoo"
    /\ HangReturn(get_real_option_price(opt_cache, polygon_available,
                      threads[1].strike, threads[1].option_type,
                      threads[1].polygon, ya))

HangTick ==
    /\ threads = <<>>
    /\ \E d \in TickSeconds : PricerTick(d)

HangInit == Init /\ component = "pricer"

HangNext ==
    \/ \E k \in Strikes, ty \in OptionTypes : HangCall(k, ty)
    \/ \E pa \in PolygonAnswers : HangPolygonResponds(pa)
    \/ HangPolygonReturn
    \/ \E ya \in YahooOptionAnswers : HangYahooReturn(ya)
    \/ HangTick

SpecHang ==
    /\ HangInit
    /\ [][HangNext]_vars
    /\ WF_vars(HangPolygonReturn)
    /\ WF_vars(\E ya \in YahooOptionAnswers : HangYahooReturn(ya))

-----------------------------------------------------------------------------
(* Properties *)

ManagerRequests == {"get_stock_data", "get_fundamentals"}
Requests == ManagerRequests \cup {"get_real_option_price"}

Logged_(P(_)) == \A i \in 1..Len(calls) : P(calls[i])
SomeLogged(P(_)) == \E i \in 1..Len(calls) : P(calls[i])

\* The TTL that applies to a request: 60 and 240 minutes, 300 seconds
TTLOf(r) ==
    CASE r.op = "get_stock_data" -> StockMaxAgeMinutes
      [] r.op = "get_fundamentals" -> FundamentalsMaxAgeMinutes
      [] r.op = "get_real_option_price" -> cache_duration

\* The payload stored under the key of request r
StoredPayload(r) ==
    IF r.op = "get_real_option_price"
    THEN IF r.key \in DOMAIN opt_cache THEN opt_cache[r.key].data ELSE None
    ELSE IF r.key \in DOMAIN cache THEN cache[r.key].data ELSE None

\* Request r went on to provider selection: it contacted a provider, or it is
\* a fundamentals request that the Tiingo gate refused.
WentToProviders(r) ==
    \/ r.contacted # <<>>
    \/ r.op = "get_fundamentals" /\ Inadmissible(r.used, r.fallback)

\* C1: a lookup returns the cached payload only when an entry exists under the
\* request key and its age is not beyond the TTL; an entry older than its TTL
\* is never returned and the request goes on to provider selection.
C1_StaleNeverReturned ==
    Logged_(LAMBDA r :
        /\ r.hit => /\ r.age >= 0
                    /\ r.age <= TTLOf(r)
                    /\ r.ret = StoredPayload(r)
                    /\ r.ret # None
        /\ r.age > TTLOf(r) => ~r.hit /\ WentToProviders(r))

\* C1 witness: an entry older than its TTL was found and the request refetched.
C1_Witness ==
    SomeLogged(LAMBDA r :
        r.age > TTLOf(r) /\ ~r.hit /\ r.contacted # <<>> /\ r.ret # None)

\* C2: a request served from the cache contacts no provider, returns the
\* stored payload and changes nothing: not the caches, not the counter, not
\* the flag.  (Replaying it therefore hits again with the same result.)
C2_HitIsNoOp ==
    [][(op' \in Requests /\ calls'[1].hit) =>
          /\ calls'[1].contacted = <<>>
          /\ calls'[1].ret = IF op' = "get_real_option_price"
                             THEN opt_cache[calls'[1].key].data
                             ELSE cache[calls'[1].key].data
          /\ UNCHANGED <<cache, tiingo_requests_used, fallback_active,
                         opt_cache, polygon_available>>]_vars

\* C2 witness: a request was served from an entry that had aged in the cache.
C2_Witness ==
    op \in Requests /\ calls[1].hit /\ calls[1].age > 0

\* C3: once the counter has reached the hourly limit, a cache-missing request
\* does not contact Tiingo: get_stock_data goes to Yahoo alone and
\* get_fundamentals returns None without contacting anything.
C3_QuotaGating ==
    Logged_(LAMBDA r :
        (r.op \in ManagerRequests /\ ~r.hit /\ r.used >= tiingo_hourly_limit) =>
            /\ ~Contains(r.contacted, "tiingo")
            /\ r.op = "get_stock_data" => r.contacted = <<"yahoo">>
            /\ r.op = "get_fundamentals" => r.contacted = <<>> /\ r.ret = None)

\* C3 witness: an unforced get_stock_data found the counter at the limit and
\* was served by Yahoo.
C3_Witness ==
    SomeLogged(LAMBDA r :
        /\ r.op = "get_stock_data" /\ ~r.hit /\ ~r.force_yahoo
        /\ r.used >= tiingo_hourly_limit
        /\ r.contacted = <<"yahoo">> /\ r.ret # None)

\* C4: 0 <= tiingo_requests_used <= tiingo_hourly_limit in every reachable
\* state, so requests_remaining of get_usage_stats is never negative.
C4_CounterWithinLimit ==
    /\ tiingo_requests_used >= 0
    /\ tiingo_requests_used <= tiingo_hourly_limit
    /\ get_usage_stats.requests_remaining >= 0
    /\ Logged_(LAMBDA r : r.op \in ManagerRequests =>
                   r.used >= 0 /\ r.used <= tiingo_hourly_limit)

\* C4 witness: the counter stands at the limit after a counted Tiingo fetch.
C4_Witness ==
    /\ tiingo_requests_used = tiingo_hourly_limit
    /\ get_usage_stats.requests_remaining = 0
    /\ SomeLogged(LAMBDA r : r.contacted = <<"tiingo">> /\ r.ret # None)

\* Request r missed the cache, was not forced to Yahoo, and found Tiingo
\* inadmissible
RefusedCandidate(r) ==
    /\ r.op \in ManagerRequests /\ ~r.hit /\ ~r.force_yahoo
    /\ Inadmissible(r.used, r.fallback)

TiingoCallsCounted ==
    Cardinality({k \in DOMAIN cache : cache[k].source = "tiingo"})

\* Request r was answered by Tiingo (and so counted)
TiingoAnswered(r) ==
    /\ r.contacted # <<>>
    /\ r.contacted[Len(r.contacted)] = "tiingo"
    /\ r.ret # None

\* C6 as claimed: while the 24h window that started at construction is still
\* open (no time has passed at all), Tiingo is not contacted by a request
\* that found tiingo_daily_limit or more calls already counted, however
\* often the hourly counter was reset in between.
C6_DailyCeilingEnforced ==
    (\A k \in DOMAIN cache : cache[k].age = 0) =>
        Logged_(LAMBDA r :
            (r.op \in ManagerRequests /\ TiingoAnswered(r)) =>
                TiingoCallsCounted - 1 < tiingo_daily_limit)

\* An OptionData whose price fields are zero placeholders, or whose moneyness
\* was computed from an underlying price of 0
ZeroFilled(d) ==
    \/ d.last_price = 0 /\ d.bid = 0 /\ d.ask = 0 /\ d.mid_price = 0
    \/ d.moneyness[1] = 0
    \/ d.moneyness[2] = 0

\* A provider contacted by request r supplied real quote data
RealQuote(r) ==
    \/ r.polygon.outcome = "bars" /\ r.polygon.underlying > 0
    \/ r.yahoo.outcome = "row"

\* C7 as claimed: get_real_option_price returns None when no provider
\* contacted yields real quote data, and never returns or caches a
\* zero-filled OptionData.
C7_NoZeroFilledQuote ==
    /\ Logged_(LAMBDA r :
          (r.op = "get_real_option_price" /\ ~r.hit) =>
              /\ ~RealQuote(r) => r.ret = None
              /\ r.ret # None => ~ZeroFilled(r.ret))
    /\ \A k \in DOMAIN opt_cache : ~ZeroFilled(opt_cache[k].data)

\* Tiingo was contacted in request r and did not supply the result
TiingoFailedIn(r) ==
    /\ Contains(r.contacted, "tiingo")
    /\ r.contacted # <<"tiingo">> \/ r.ret = None

C9_OneAttemptPerProvider ==
    Logged_(LAMBDA r :
        /\ r.op = "get_stock_data" =>
              r.contacted \in {<<>>, <<"tiingo">>, <<"yahoo">>,
                               <<"tiingo", "yahoo">>}
        /\ r.op = "get_fundamentals" => r.contacted \in {<<>>, <<"tiingo">>}
        /\ r.op = "get_real_option_price" =>
              r.contacted \in {<<>>, <<"polygon">>, <<"yahoo">>,
                               <<"polygon", "yahoo">>})

\* C9 witness: Tiingo failed, Yahoo failed as well, and the request ended
\* with None after contacting each once.
C9_Witness ==
    SomeLogged(LAMBDA r :
        r.op = "get_stock_data" /\ r.contacted = <<"tiingo", "yahoo">>
        /\ r.ret = None)

\* Polygon was contacted in request r and did not supply the result
PolygonFailedIn(r) ==
    /\ Contains(r.contacted, "polygon")
    /\ r.contacted # <<"polygon">>

\* C10: a provider that failed in one request is contacted again, and first,
\* by the next cache-missing request.  Between two consecutive top-level
\* requests this holds without exception.  Inside one batch it holds for
\* consecutive calls too, the only skip being the batch's own margin latch
\* (counter at limit - 2 or more at an iteration boundary), which fires
\* whether or not the provider failed.
C10_FailedProviderRetried ==
    /\ [][(/\ op \in ManagerRequests /\ TiingoFailedIn(calls[1])
           /\ op' \in ManagerRequests
           /\ ~calls'[1].hit /\ ~calls'[1].force_yahoo) =>
              /\ calls'[1].contacted # <<>>
              /\ calls'[1].contacted[1] = "tiingo"]_vars
    /\ [][(/\ op = "get_real_option_price" /\ PolygonFailedIn(calls[1])
           /\ op' = "get_real_option_price"
           /\ ~calls'[1].hit) =>
              /\ calls'[1].contacted # <<>>
              /\ calls'[1].contacted[1] = "polygon"]_vars
    /\ [](\A i \in 1..(Len(calls) - 1) :
            (/\ op = "batch_analyze_symbols"
             /\ TiingoFailedIn(calls[i])
             /\ ~calls[i + 1].hit
             /\ ~(/\ calls[i + 1].op = "get_stock_data"
                  /\ calls[i].used >= tiingo_hourly_limit - 2)) =>
                /\ calls[i + 1].contacted # <<>>
                /\ calls[i + 1].contacted[1] = "tiingo")

\* C10 witness: in one batch, Tiingo failed for a symbol and was contacted
\* again for the next one.
C10_Witness ==
    /\ op = "batch_analyze_symbols"
    /\ Len(calls) >= 2
    /\ TiingoFailedIn(calls[1])
    /\ ~calls[2].hit
    /\ calls[2].contacted # <<>>
    /\ calls[2].contacted[1] = "tiingo"

\* C11: whatever the services answer (nothing, or an exception), every
\* request ends with a value or None: no exception reaches the caller, and
\* none is stored in a cache.
C11_NoExceptionEscapes ==
    /\ Logged_(LAMBDA r : r.op \in Requests => r.ret # Raised)
    /\ \A k \in DOMAIN cache : cache[k].data # Raised
    /\ \A k \in DOMAIN opt_cache : opt_cache[k].data # Raised

\* C11 witness: Polygon's quote made the conversion divide by zero and
\* yfinance raised as well; the request returned None.
C11_Witness ==
    SomeLogged(LAMBDA r :
        /\ r.op = "get_real_option_price"
        /\ r.contacted = <<"polygon", "yahoo">>
        /\ r.polygon.outcome = "bars" /\ r.polygon.underlying = 0
        /\ r.yahoo.outcome = "raise"
        /\ r.ret = None)

\* C12 as claimed: every value get_stock_data returns carries a source tag
\* that names the provider which produced it (the last one contacted, when
\* the request missed the cache) and equals the source of the cache entry
\* under the request key.
C12_SourceTagMatchesCache ==
    Logged_(LAMBDA r :
        (r.op = "get_stock_data" /\ r.ret # None) =>
            /\ r.key \in DOMAIN cache
            /\ r.ret.source \in {"tiingo", "yahoo"}
            /\ r.ret.source = cache[r.key].source
            /\ ~r.hit => r.ret.source = r.contacted[Len(r.contacted)])

\* The workers that are inside a provider call for cache_key
InFlight(cache_key) ==
    {w \in DOMAIN threads :
        /\ threads[w].pc \in {"tiingo_call", "yahoo_call"}
        /\ _get_cache_key(threads[w].symbol, "stock") = cache_key}

\* The workers that hold the value they are about to return for cache_key
Holding(cache_key) ==
    {w \in DOMAIN threads :
        /\ threads[w].pc \in {"count_read", "count_write", "cache_put",
                              "yahoo_put"}
        /\ _get_cache_key(threads[w].symbol, "stock") = cache_key}

\* C13 as claimed: for every key at most one provider call is in flight at
\* any time, and all callers of the key get the identical result: the
\* values the workers hold for it agree with each other and with the entry
\* the cache already has.
C13_NoDogpile ==
    \A w \in DOMAIN threads :
        LET cache_key == _get_cache_key(threads[w].symbol, "stock") IN
        threads[w].pc # "idle" =>
            /\ Cardinality(InFlight(cache_key)) <= 1
            /\ \A u, v \in Holding(cache_key) :
                  threads[u].data = threads[v].data
            /\ \A u \in Holding(cache_key) :
                  cache_key \in DOMAIN cache =>
                      cache[cache_key].data = threads[u].data

\* C14 as claimed: under every interleaving of worker threads sharing one
\* manager, at most tiingo_hourly_limit Tiingo calls are admitted in a
\* window (here: since construction, no time having passed and with calls
\* for distinct keys) and tiingo_requests_used never exceeds the limit.
C14_BudgetSafeUnderThreads ==
    /\ tiingo_requests_used <= tiingo_hourly_limit
    /\ (\A k \in DOMAIN cache : cache[k].age = 0) =>
          TiingoCallsCounted <= tiingo_hourly_limit

\* The provider that produced the value of a request that missed the cache
ProducedBy(r) == r.contacted[Len(r.contacted)]

\* A get_real_option_price request that returned a quote
Quoted(r) == r.op = "get_real_option_price" /\ r.ret # None

\* A get_real_option_price request whose quote a provider just produced
FreshQuote(r) == Quoted(r) /\ ~r.hit

\* C15: in every quote returned, mid = (bid + ask) / 2 when bid > 0 and
\* ask > 0, and mid = last_price otherwise; a quote built from Yahoo's row
\* carries the row's bid, ask and lastPrice.
C15_MidPriceRule ==
    Logged_(LAMBDA r :
        /\ Quoted(r) =>
              IF r.ret.bid > 0 /\ r.ret.ask > 0
              THEN 2 * r.ret.mid_price = r.ret.bid + r.ret.ask
              ELSE r.ret.mid_price = r.ret.last_price
        /\ (FreshQuote(r) /\ ProducedBy(r) = "yahoo") =>
              /\ r.ret.bid = r.yahoo.bid
              /\ r.ret.ask = r.yahoo.ask
              /\ r.ret.last_price = r.yahoo.lastPrice)

\* C15 witness: Yahoo's row had bid = 0, ask = 0, last 1.50 and the quote's
\* mid is 1.50.
C15_Witness ==
    SomeLogged(LAMBDA r :
        /\ FreshQuote(r) /\ ProducedBy(r) = "yahoo"
        /\ r.yahoo.bid = 0 /\ r.yahoo.ask = 0 /\ r.yahoo.lastPrice = 150
        /\ r.ret.mid_price = 150)

\* The underlying price the producing provider saw
UnderlyingSeen(r) ==
    IF ProducedBy(r) = "polygon" THEN r.polygon.underlying
    ELSE r.yahoo.current_price

\* C16: the intrinsic value of every quote is max(0, underlying - strike) for
\* a CALL and max(0, strike - underlying) for a PUT, on both paths, and is
\* never negative.
C16_IntrinsicValue ==
    /\ Logged_(LAMBDA r :
          FreshQuote(r) =>
              LET u == UnderlyingSeen(r)
                  k == r.key[1]
              IN r.ret.intrinsic_value =
                    IF r.key[2] = "CALL"
                    THEN (IF u > k THEN u - k ELSE 0)
                    ELSE (IF k > u THEN k - u ELSE 0))
    /\ Logged_(LAMBDA r : Quoted(r) => r.ret.intrinsic_value >= 0)
    /\ \A k \in DOMAIN opt_cache : opt_cache[k].data.intrinsic_value >= 0

\* C16 witness: a PUT with strike 100 and underlying 105 has intrinsic
\* value 0.
C16_Witness ==
    SomeLogged(LAMBDA r :
        /\ FreshQuote(r) /\ r.key = <<10000, "PUT">>
        /\ UnderlyingSeen(r) = 10500
        /\ r.ret.intrinsic_value = 0)

\* C17: in every quote returned, time_value = max(0, mid - intrinsic_value);
\* so 0 <= time_value <= mid when mid >= 0, and intrinsic_value + time_value
\* = mid when mid >= intrinsic_value.
C17_TimeValue ==
    Logged_(LAMBDA r :
        Quoted(r) =>
            LET q == r.ret IN
            /\ q.time_value = IF q.mid_price >= q.intrinsic_value
                              THEN q.mid_price - q.intrinsic_value ELSE 0
            /\ q.mid_price >= 0 =>
                  q.time_value >= 0 /\ q.time_value <= q.mid_price
            /\ q.mid_price >= q.intrinsic_value =>
                  q.intrinsic_value + q.time_value = q.mid_price)

\* C17 witness: a quote whose mid is below its intrinsic value has time
\* value 0.
C17_Witness ==
    SomeLogged(LAMBDA r :
        /\ FreshQuote(r)
        /\ r.ret.mid_price > 0
        /\ r.ret.mid_price < r.ret.intrinsic_value
        /\ r.ret.time_value = 0)

\* The derived fields of a quote
Derived(q) == <<q.mid_price, q.intrinsic_value, q.time_value, q.moneyness>>

\* What the Yahoo branch makes of a row with the given raw values
YahooPathOn(strike, option_type, bid, ask, last, underlying) ==
    FromYahoo(strike, option_type,
              [outcome |-> "row", current_price |-> underlying,
               bid |-> bid, ask |-> ask, lastPrice |-> last])

\* What the Polygon path makes of a bar with the given raw values (Polygon's
\* delayed data carries no bid and no ask: both are 0)
PolygonPathOn(strike, option_type, last, underlying) ==
    FromPolygon(PolygonGetOptionPrice(strike, option_type,
                    [outcome |-> "bars", last |-> last,
                     underlying |-> underlying]))

\* C18: from the same contract and the same raw bid, ask, last price and
\* underlying price, the other path produces the same mid_price,
\* intrinsic_value, time_value and moneyness as the path that produced the
\* quote.  (Polygon's raw bid and ask are always 0, so a Yahoo quote has a
\* Polygon counterpart only when its bid and ask are 0.)
C18_ProviderEquivalence ==
    Logged_(LAMBDA r :
        /\ (FreshQuote(r) /\ ProducedBy(r) = "polygon") =>
              Derived(YahooPathOn(r.key[1], r.key[2], r.ret.bid, r.ret.ask,
                                  r.ret.last_price, r.polygon.underlying))
              = Derived(r.ret)
        /\ (FreshQuote(r) /\ ProducedBy(r) = "yahoo"
            /\ r.yahoo.bid = 0 /\ r.yahoo.ask = 0) =>
              Derived(PolygonPathOn(r.key[1], r.key[2], r.yahoo.lastPrice,
                                    r.yahoo.current_price))
              = Derived(r.ret))

\* C18 witness: Polygon produced the quote of a PUT from a bar and an
\* underlying price.
C18_Witness ==
    SomeLogged(LAMBDA r :
        /\ FreshQuote(r) /\ ProducedBy(r) = "polygon"
        /\ r.key[2] = "PUT"
        /\ r.polygon.outcome = "bars" /\ r.polygon.underlying > 0)

\* The same series with the capitalization of its column names switched
Recased(stock_data) ==
    LET df == stock_data.price_data
        other(c) == CASE c = "Close" -> "close" [] c = "close" -> "Close"
                      [] c = "Volume" -> "volume" [] c = "volume" -> "Volume"
        back == [c \in {other(d) : d \in DOMAIN df} |-> other(c)]
    IN [stock_data EXCEPT !.price_data = [c \in DOMAIN back |-> df[back[c]]]]

\* The result without its source label
Unlabelled(m) == [k \in DOMAIN m \ {"data_quality"} |-> m[k]]

\* A call of calculate_enhanced_metrics on a series (a dict with price_data)
OnSeries(r) ==
    /\ r.op = "calculate_enhanced_metrics"
    /\ r.stock_data # None
    /\ "price_data" \in DOMAIN r.stock_data

\* The series of r has one capitalization throughout
OneCasing(r) ==
    \/ DOMAIN r.stock_data.price_data \subseteq {"Close", "Volume"}
    \/ DOMAIN r.stock_data.price_data \subseteq {"close", "volume"}

\* Two series that differ only in the capitalization of their column names
\* yield the same result apart from the source label
CasingEquivalent(r) ==
    (OnSeries(r) /\ OneCasing(r)) =>
        Unlabelled(calculate_enhanced_metrics(Recased(r.stock_data)))
        = Unlabelled(r.ret)

FoundEntry(r) == r.op \in Requests /\ r.age >= 0

\* C20 as claimed: the hit condition is now - inserted_at <= ttl: an entry is
\* a hit at every age up to and including exactly the TTL, and a miss at
\* every greater age.
C20_HitUpToTTL ==
    Logged_(LAMBDA r : FoundEntry(r) => (r.hit <=> r.age <= TTLOf(r)))

\* C20 amended: the hit condition is now - inserted_at < ttl: an entry is a
\* hit at every age below the TTL, and a miss at exactly the TTL and at every
\* greater age.
C20_HitBelowTTL ==
    Logged_(LAMBDA r : FoundEntry(r) => (r.hit <=> r.age < TTLOf(r)))

\* C20 witness: a lookup found an entry of exactly the TTL's age and missed.
C20_Witness ==
    SomeLogged(LAMBDA r : FoundEntry(r) /\ r.age = TTLOf(r) /\ ~r.hit)

\* C21: each data kind is judged against its own TTL only: a stock entry is a
\* hit below 60 minutes and a miss from 60 minutes on, a fundamentals entry
\* is a hit below 240 minutes (so also between 60 and 240 minutes, where a
\* stock entry misses) and a miss from 240 minutes on, an option quote is a
\* hit below 300 seconds and a miss from 300 seconds on.
C21_TTLPerKind ==
    Logged_(LAMBDA r :
        FoundEntry(r) =>
            /\ r.op = "get_stock_data" => (r.hit <=> r.age < 60)
            /\ r.op = "get_fundamentals" =>
                  /\ (r.age >= 60 /\ r.age < 240) => r.hit
                  /\ r.hit <=> r.age < 240
            /\ r.op = "get_real_option_price" => (r.hit <=> r.age < 300))

\* C21 witness: one batch found a stock entry and a fundamentals entry of the
\* same age, 60 minutes or more; the stock lookup missed and the fundamentals
\* lookup hit.
C21_Witness ==
    /\ op = "batch_analyze_symbols"
    /\ \E i, j \in 1..Len(calls) :
          /\ calls[i].op = "get_stock_data"
          /\ calls[j].op = "get_fundamentals"
          /\ calls[i].age >= 60
          /\ calls[j].age = calls[i].age
          /\ ~calls[i].hit
          /\ calls[j].hit

\* C22: a provider that never answers cannot block a request forever: under
\* fairness of the caller, every get_real_option_price call that has started
\* eventually returns.
C22_EveryCallReturns == (threads # <<>>) ~> (threads = <<>>)

\* The case of the Polygon adapter that an answer of Polygon falls in
PolygonCase(pa) ==
    CASE pa.outcome = "no_contract" -> "not_found"
      [] pa.outcome \in {"contracts_http_error", "aggs_http_error", "raise"} ->
            "transport"
      [] pa.outcome \in {"no_bars", "bars"} -> "found"

\* Request r asked the Polygon adapter
AskedPolygon(r) ==
    r.op = "get_real_option_price" /\ Contains(r.contacted, "polygon")

\* What the adapter returned to request r
PolygonOutcomeOf(r) == PolygonGetOptionPrice(r.key[1], r.key[2], r.polygon)

C24_FallbackLatch ==
    [][/\ fallback_active => (fallback_active' \/ op' = "reset_hourly_usage")
       /\ \A i \in 1..Len(calls') :
             (calls'[i].op \in ManagerRequests /\ calls'[i].fallback) =>
                 ~Contains(calls'[i].contacted, "tiingo")]_vars

\* C24 witness: with the flag set and the counter below the hourly limit, a
\* get_stock_data call that missed the cache and was free to use Tiingo went
\* to Yahoo alone, and the flag is still set.
C24_Witness ==
    /\ op = "get_stock_data"
    /\ fallback_active
    /\ calls[1].fallback
    /\ calls[1].used < tiingo_hourly_limit
    /\ ~calls[1].force_yahoo
    /\ ~calls[1].hit
    /\ calls[1].contacted = <<"yahoo">>

\* The number of requests, among those logged, that invoked the Tiingo adapter
TiingoInvocations ==
    Cardinality({i \in 1..Len(calls) : Contains(calls[i].contacted, "tiingo")})

\* C25: between two resets, the number of times the Tiingo adapter is
\* invoked by SmartDataManager, counting invocations that return no data or
\* raise, never exceeds tiingo_hourly_limit.
C25_InvocationsWithinLimit == TiingoInvocations <= tiingo_hourly_limit

\* C26: PolygonDataProvider issues at most 50 HTTP requests inside any one
\* rate-limit window (the span between two resets of requests_made), for
\* every sequence of get_stock_data, get_options_chain, get_option_price and
\* get_market_news calls.
C26_PolygonWindowLimit == requests_made <= 50

\* Request r got its result from a Tiingo fetch
TiingoReturnedData(r) ==
    /\ r.op \in ManagerRequests
    /\ r.contacted = <<"tiingo">>
    /\ r.ret # None

\* The number of logged requests that got their result from a Tiingo fetch
TiingoSuccesses(log) ==
    Cardinality({i \in 1..Len(log) : TiingoReturnedData(log[i])})

\* C27: tiingo_requests_used changes only in two ways: it increases by
\* exactly one when a Tiingo fetch in get_stock_data or get_fundamentals
\* returns data, and it is set to 0 by reset_hourly_usage; a Tiingo call that
\* returns no data or raises, a Yahoo fetch, a cache hit and a force_yahoo
\* request all leave it unchanged.
C27_CounterFrame ==
    [][IF op' = "reset_hourly_usage"
       THEN tiingo_requests_used' = 0
       ELSE /\ tiingo_requests_used' = tiingo_requests_used + TiingoSuccesses(calls')
            /\ \A i \in 1..Len(calls') :
                  (/\ calls'[i].op \in ManagerRequests
                   /\ \/ calls'[i].hit
                      \/ calls'[i].force_yahoo
                      \/ Contains(calls'[i].contacted, "yahoo"))
                      => ~TiingoReturnedData(calls'[i])]_vars

\* C27 witness: Tiingo was called and returned no data, Yahoo supplied the
\* result and the counter, already positive, is what it was.
C27_Witness ==
    /\ op = "get_stock_data"
    /\ calls[1].contacted = <<"tiingo", "yahoo">>
    /\ calls[1].ret # None
    /\ calls[1].used > 0
    /\ tiingo_requests_used = calls[1].used

\* The entry under the key of request r, in cache c of its object (None: no
\* entry)
EntryOf(r, c) == IF r.key \in DOMAIN c THEN c[r.key] ELSE None

\* Every entry holds a payload that a successful provider call produced
OnlyFetchedCached ==
    /\ \A k \in DOMAIN cache :
          /\ cache[k].data \notin {None, Raised}
          /\ cache[k].source \in {"tiingo", "yahoo"}
          /\ cache[k].data.symbol = k[1]
          /\ cache[k].data.kind = k[2]
    /\ \A k \in DOMAIN opt_cache :
          /\ opt_cache[k].data \notin {None, Raised}
          /\ opt_cache[k].data.strike = k[1]
          /\ opt_cache[k].data.option_type = k[2]

\* A request that ended with the no-data result wrote no entry, and what is
\* under its key is not a valid entry
FailureNotCached ==
    \A i \in 1..Len(calls') :
        (calls'[i].op \in Requests /\ calls'[i].ret = None) =>
            /\ ~calls'[i].hit
            /\ IF calls'[i].op = "get_real_option_price"
               THEN /\ EntryOf(calls'[i], opt_cache') = EntryOf(calls'[i], opt_cache)
                    /\ ~OptCacheValid(opt_cache', calls'[i].key)
               ELSE /\ EntryOf(calls'[i], cache') = EntryOf(calls'[i], cache)
                    /\ ~_is_cache_valid(cache', calls'[i].key, TTLOf(calls'[i]))

\* C28: only successful fetches are cached: in every reachable state each
\* entry of SmartDataManager.cache and RealOptionsPricer.cache holds a
\* non-empty payload produced by a provider call that succeeded; a request
\* that ends with the no-data result writes no cache entry, so the next
\* identical request does not hit a cached failure.
C28_OnlySuccessesCached == []OnlyFetchedCached /\ [][FailureNotCached]_vars

\* C28 witness: both providers failed for a get_stock_data request; it
\* returned None while another kind of data is cached for the symbol, and
\* there is no entry under its key.
C28_Witness ==
    /\ op = "get_stock_data"
    /\ calls[1].contacted = <<"tiingo", "yahoo">>
    /\ calls[1].ret = None
    /\ calls[1].key \notin DOMAIN cache
    /\ DOMAIN cache # {}

\* The flag is set with the counter within 2 of the hourly limit
FlagImpliesNearLimit ==
    fallback_active => tiingo_requests_used >= tiingo_hourly_limit - 2

\* The flag is set only by the limit check, with the counter at the limit, or
\* by batch_analyze_symbols; reset_hourly_usage clears flag and counter
FlagSetAndCleared ==
    /\ (~fallback_active /\ fallback_active') =>
          \/ tiingo_requests_used' >= tiingo_hourly_limit
          \/ op' = "batch_analyze_symbols"
    /\ op' = "reset_hourly_usage" =>
          ~fallback_active' /\ tiingo_requests_used' = 0

\* C29: in every reachable state of SmartDataManager, fallback_active = true
\* implies tiingo_requests_used >= tiingo_hourly_limit - 2: the flag is set
\* only by the limit check (counter at the limit) or by batch_analyze_symbols
\* (counter within 2 of the limit), and reset_hourly_usage clears the flag
\* and the counter together.
C29_FlagNearLimit == []FlagImpliesNearLimit /\ [][FlagSetAndCleared]_vars

\* C29 witness: batch_analyze_symbols has set the flag with the counter two
\* below the hourly limit.
C29_Witness ==
    /\ op = "batch_analyze_symbols"
    /\ fallback_active
    /\ tiingo_requests_used = tiingo_hourly_limit - 2

\* C30: reset_hourly_usage sets tiingo_requests_used to 0 and fallback_active
\* to false and leaves every cache entry unchanged; consequently, with the
\* counter and the flag as it leaves them, a cache-missing get_stock_data
\* call (force_yahoo false) contacts Tiingo, while a key cached before keeps
\* returning its cached payload, Yahoo-sourced ones included, until its TTL
\* expires.
C30_ResetFrame ==
    [][/\ op' = "reset_hourly_usage" =>
             /\ tiingo_requests_used' = 0
             /\ ~fallback_active'
             /\ cache' = cache
       /\ (/\ op' = "get_stock_data"
           /\ \/ op = "reset_hourly_usage"
              \/ tiingo_requests_used = 0 /\ ~fallback_active) =>
             /\ (~calls'[1].hit /\ ~calls'[1].force_yahoo) =>
                   calls'[1].contacted[1] = "tiingo"
             /\ (calls'[1].age >= 0 /\ calls'[1].age < StockMaxAgeMinutes) =>
                   /\ calls'[1].hit
                   /\ calls'[1].ret = cache[calls'[1].key].data
                   /\ cache' = cache]_vars

\* C30 witness: after a reset (the counter is 0 although a Tiingo-sourced
\* entry is cached) a get_stock_data call was served a Yahoo-sourced payload
\* from the cache.
C30_Witness ==
    /\ op = "get_stock_data"
    /\ tiingo_requests_used = 0
    /\ ~fallback_active
    /\ \E k \in DOMAIN cache : cache[k].source = "tiingo"
    /\ calls[1].hit
    /\ calls[1].ret.source = "yahoo"

====
